---- MODULE Spec2Model ----
(***************************************************************************)
(* Alerting engine of the IoT industrial safety layer                      *)
(* (backend/app/main.py, backend/db/database.py).                          *)
(*                                                                         *)
(* State: the two tables (sensor_data, alerts), the two module-level maps  *)
(* of bounded deques (temp_history, gas_history), and, for the threadpool  *)
(* model, each worker's position inside insert_sensor_data.  probe and     *)
(* verdict hold the argument and the result of a rule applied on its own.  *)
(*                                                                         *)
(* Readings are integer-valued floats, so every comparison the handler     *)
(* makes on means, standard deviations and percentages is computed here    *)
(* exactly, by cross-multiplication.                                       *)
(***************************************************************************)
EXTENDS Integers, Sequences, FiniteSets, TLC

VARIABLES sensor_data, temp_history, gas_history, alerts, clock, response,
          pc, req, pending, probe, verdict

vars == <<sensor_data, temp_history, gas_history, alerts, clock, response,
          pc, req, pending, probe, verdict>>

(* ---------------------------- bounds ----------------------------------- *)

\* readings ingested in a behaviour of Spec
MaxReadings == 5
\* readings ingested in a behaviour of SpecSpike
MaxSpike == 11
\* times a reading of SpecSpike differs from the reading before it
MaxChanges == 2
\* readings ingested in a behaviour of SpecWindow
MaxWindow == 24
\* leading readings of SpecWindow that follow the ramp
WarmUp == 18
\* requests served in a behaviour of SpecConc
MaxRequests == 2
\* readings ingested in a behaviour of SpecRolling
MaxRolling == 6
\* readings ingested in a behaviour of SpecIO
MaxIO == 4
\* longest window handed to zscore_anomaly in SpecZscore
MaxSamples == 11

(* ------------------------- program constants --------------------------- *)

WINDOW_SIZE == 20

Devices == {"TEMP_SENSOR_01", "GAS_SENSOR_01"}
Workers == {"w1", "w2"}
NULL == 0

(* ----------------------------- helpers --------------------------------- *)

Abs(x) == IF x < 0 THEN -x ELSE x

RECURSIVE SumSeq(_)
SumSeq(s) == IF s = <<>> THEN 0 ELSE Head(s) + SumSeq(Tail(s))

RECURSIVE Gcd(_, _)
Gcd(a, b) == IF b = 0 THEN a ELSE Gcd(b, a % b)

Reverse(s) == [i \in 1..Len(s) |-> s[Len(s) + 1 - i]]

\* the last k elements of s (all of s when it is shorter)
LastK(s, k) == IF Len(s) <= k THEN s ELSE SubSeq(s, Len(s) - k + 1, Len(s))

\* a / b rounded to the nearest integer, ties to even (a >= 0, b > 0)
RoundHalfEven(a, b) ==
    LET q == a \div b
        r == a % b
    IN IF 2 * r < b THEN q
       ELSE IF 2 * r > b THEN q + 1
       ELSE IF q % 2 = 0 THEN q ELSE q + 1

(* ------------------------- window tracker ------------------------------ *)

\* DequeAppend dropping the newest element of a full deque
DequeAppend_DropNewest(w, v) ==
    IF Len(w) >= WINDOW_SIZE THEN Append(SubSeq(w, 1, Len(w) - 1), v) ELSE Append(w, v)

\* deque(maxlen=WINDOW_SIZE).append: a full deque drops its oldest element
DequeAppend(w, v) ==
    IF Len(w) >= WINDOW_SIZE THEN Append(Tail(w), v) ELSE Append(w, v)

(* --------------------------- rule evaluator ---------------------------- *)

\* SUM ((n*x - S) / u)^2 over the values
RECURSIVE SumSqDev(_, _, _, _)
SumSqDev(values, n, S, u) ==
    IF values = <<>> THEN 0
    ELSE ((n * Head(values) - S) \div u) * ((n * Head(values) - S) \div u)
         + SumSqDev(Tail(values), n, S, u)

\* the common divisor of the deviations n*x - S
RECURSIVE GcdDev(_, _, _)
GcdDev(values, n, S) ==
    IF values = <<>> THEN 0
    ELSE Gcd(Abs(n * Head(values) - S), GcdDev(Tail(values), n, S))

\* abs(current - mean) > 3 * stdev, with mean = S/n and the Bessel-corrected
\* stdev = sqrt(SUM (x - mean)^2 / (n - 1)); both sides squared and multiplied
\* by n^2 (n - 1).  The deviations n*x - S are divided by their common
\* divisor u first, which leaves the comparison unchanged.
ExceedsSigmas(values, n, S, u, current, k) ==
    (n - 1) * ((n * current - S) \div u) * ((n * current - S) \div u)
        > k * k * SumSqDev(values, n, S, u)

\* stdev = 0 exactly when all values are equal
ZeroStdev(values) == \A i \in 1..Len(values) : values[i] = values[1]

\* zscore_anomaly with the limit at 2 standard deviations
zscore_anomaly_2sigma(values, current) ==
    IF Len(values) < 10 THEN FALSE
    ELSE IF ZeroStdev(values) THEN FALSE
    ELSE ExceedsSigmas(values, Len(values), SumSeq(values),
                       Gcd(GcdDev(values, Len(values), SumSeq(values)),
                           Abs(Len(values) * current - SumSeq(values))),
                       current, 2)

\* zscore_anomaly without the stdev == 0 return: abs(current - mean) > 0
zscore_anomaly_NoStdevGuard(values, current) ==
    IF Len(values) < 10 THEN FALSE
    ELSE IF ZeroStdev(values) THEN current # values[1]
    ELSE ExceedsSigmas(values, Len(values), SumSeq(values),
                       Gcd(GcdDev(values, Len(values), SumSeq(values)),
                           Abs(Len(values) * current - SumSeq(values))),
                       current, 3)

zscore_anomaly(values, current) ==
    IF Len(values) < 10 THEN FALSE
    ELSE IF ZeroStdev(values) THEN FALSE
    ELSE ExceedsSigmas(values, Len(values), SumSeq(values),
                       Gcd(GcdDev(values, Len(values), SumSeq(values)),
                           Abs(Len(values) * current - SumSeq(values))),
                       current, 3)

\* GasThreshold with the upper limit at 500
GasThreshold_500(g) ==
    IF g >= 500 THEN << <<"HIGH_GAS", "HIGH", <<"Dangerous gas level detected">> >> >>
    ELSE IF g > 300 THEN << <<"HIGH_GAS", "MEDIUM", <<"Elevated gas level detected">> >> >>
    ELSE <<>>

GasThreshold(g) ==
    IF g > 600 THEN << <<"HIGH_GAS", "HIGH", <<"Dangerous gas level detected">> >> >>
    ELSE IF g > 300 THEN << <<"HIGH_GAS", "MEDIUM", <<"Elevated gas level detected">> >> >>
    ELSE <<>>

\* TempThreshold with the comparisons made inclusive
TempThreshold_Inclusive(t) ==
    IF t >= 80 THEN << <<"HIGH_TEMP", "HIGH", <<"Critical temperature detected">> >> >>
    ELSE IF t >= 60 THEN << <<"HIGH_TEMP", "MEDIUM", <<"High temperature detected">> >> >>
    ELSE IF t <= 0 THEN << <<"LOW_TEMP", "LOW", <<"Low temperature detected">> >> >>
    ELSE <<>>

TempThreshold(t) ==
    IF t > 80 THEN << <<"HIGH_TEMP", "HIGH", <<"Critical temperature detected">> >> >>
    ELSE IF t > 60 THEN << <<"HIGH_TEMP", "MEDIUM", <<"High temperature detected">> >> >>
    ELSE IF t < 0 THEN << <<"LOW_TEMP", "LOW", <<"Low temperature detected">> >> >>
    ELSE <<>>

ThresholdAlerts(t, g) == GasThreshold(g) \o TempThreshold(t)

ZscoreAlerts(tw, gw, t, g) ==
    (IF zscore_anomaly(tw, t)
     THEN << <<"TEMP_ANOMALY", "MEDIUM",
               <<"Temperature deviates significantly from recent behavior">> >> >>
     ELSE <<>>)
    \o
    (IF zscore_anomaly(gw, g)
     THEN << <<"GAS_ANOMALY", "HIGH",
               <<"Gas level deviates significantly from recent behavior">> >> >>
     ELSE <<>>)

\* recent_rows without the where clause on device_id
recent_rows_AllDevices(sd, d) == Reverse(LastK(sd, 10))

\* select ... where device_id = d order by timestamp desc limit 10
recent_rows(sd, d) ==
    Reverse(LastK(SelectSeq(sd, LAMBDA r : r.device_id = d), 10))

RowTemps(rows) == [i \in 1..Len(rows) |-> rows[i].temperature]
RowGases(rows) == [i \in 1..Len(rows) |-> rows[i].gas_level]

\* the unguarded divisions by avg_temp and avg_gas raise ZeroDivisionError
RollingFault(rows) ==
    /\ Len(rows) >= 5
    /\ \/ SumSeq(RowTemps(rows)) = 0
       \/ SumSeq(RowGases(rows)) = 0

\* DeviationAbove with the deviation divided by the magnitude of the average
DeviationAbove_AbsMean(value, S, n, limit) ==
    S # 0 /\ 100 * Abs(n * value - S) > limit * Abs(S)

\* abs(value - avg) / avg * 100 > limit, with avg = S/n (S # 0)
DeviationAbove(value, S, n, limit) ==
    S > 0 /\ 100 * Abs(n * value - S) > limit * S

\* the percentage as f"{dev:.1f}" prints it, in tenths
DeviationTenths(value, S, n) ==
    IF S > 0 THEN RoundHalfEven(1000 * Abs(n * value - S), S)
    ELSE -RoundHalfEven(1000 * Abs(n * value - S), -S)

RollingAlerts(rows, t, g) ==
    IF Len(rows) < 5 THEN <<>>
    ELSE LET n == Len(rows)
             St == SumSeq(RowTemps(rows))
             Sg == SumSeq(RowGases(rows))
         IN (IF DeviationAbove(t, St, n, 25)
             THEN << <<"TEMP_ROLLING_ANOMALY", "MEDIUM",
                       <<"Temperature deviation", DeviationTenths(t, St, n),
                         "% from rolling average">> >> >>
             ELSE <<>>)
            \o
            (IF DeviationAbove(g, Sg, n, 30)
             THEN << <<"GAS_ROLLING_ANOMALY", "HIGH",
                       <<"Gas level deviation", DeviationTenths(g, Sg, n),
                         "% from rolling average">> >> >>
             ELSE <<>>)

(* ---------------------------- alert ledger ----------------------------- *)

\* AlertRow with the insertion time written into the message
AlertRow_Stamped(d, ev, now) ==
    [device_id |-> d, alert_type |-> ev[1], severity |-> ev[2],
     message |-> Append(ev[3], now), is_active |-> TRUE, created_at |-> now,
     resolved_at |-> NULL]

AlertRow(d, ev, now) ==
    [device_id |-> d, alert_type |-> ev[1], severity |-> ev[2],
     message |-> ev[3], is_active |-> TRUE, created_at |-> now,
     resolved_at |-> NULL]

\* one insert per event, no look at the rows already there
InsertAlerts(al, d, events, now) ==
    al \o [i \in 1..Len(events) |-> AlertRow(d, events[i], now)]

\* ResolveGroup that clears is_active and leaves resolved_at as it was
ResolveGroup_NoTimestamp(al, d, types, now) ==
    [i \in 1..Len(al) |->
        IF al[i].device_id = d /\ al[i].alert_type \in types /\ al[i].is_active
        THEN [al[i] EXCEPT !.is_active = FALSE]
        ELSE al[i]]

\* ResolveGroup without the device filter of the update
ResolveGroup_AnyDevice(al, d, types, now) ==
    [i \in 1..Len(al) |->
        IF al[i].alert_type \in types /\ al[i].is_active
        THEN [al[i] EXCEPT !.is_active = FALSE, !.resolved_at = now]
        ELSE al[i]]

ResolveGroup(al, d, types, now) ==
    [i \in 1..Len(al) |->
        IF al[i].device_id = d /\ al[i].alert_type \in types /\ al[i].is_active
        THEN [al[i] EXCEPT !.is_active = FALSE, !.resolved_at = now]
        ELSE al[i]]

GasResolves(g) == g <= 300
TempResolves(t) == 0 <= t /\ t <= 60

\* AutoResolve with the rolling types added to the two groups
AutoResolve_WithRolling(al, d, t, g, now) ==
    LET a1 == IF GasResolves(g)
              THEN ResolveGroup(al, d, {"HIGH_GAS", "GAS_ANOMALY",
                                        "GAS_ROLLING_ANOMALY"}, now)
              ELSE al
    IN IF TempResolves(t)
       THEN ResolveGroup(a1, d, {"HIGH_TEMP", "LOW_TEMP", "TEMP_ANOMALY",
                                 "TEMP_ROLLING_ANOMALY"}, now)
       ELSE a1

AutoResolve(al, d, t, g, now) ==
    LET a1 == IF GasResolves(g)
              THEN ResolveGroup(al, d, {"HIGH_GAS", "GAS_ANOMALY"}, now)
              ELSE al
    IN IF TempResolves(t)
       THEN ResolveGroup(a1, d, {"HIGH_TEMP", "LOW_TEMP", "TEMP_ANOMALY"}, now)
       ELSE a1

(* ------------------------- the ingestion handler ----------------------- *)

Reading(d, t, g) == [device_id |-> d, temperature |-> t, gas_level |-> g]

\* Valid without the upper limit of temperature
Valid_NoUpperTemp(d, t, g) ==
    /\ 3 <= Len(d) /\ Len(d) <= 50
    /\ -40 <= t
    /\ 0 <= g /\ g <= 1000

\* the SensorData model: a request that fails it never reaches the handler
Valid(d, t, g) ==
    /\ 3 <= Len(d) /\ Len(d) <= 50
    /\ -40 <= t /\ t <= 150
    /\ 0 <= g /\ g <= 1000

\* no rule is being applied on its own
NoProbe == [rule |-> "none"]

\* POST /sensor-data served start to end, as a function of the engine state
insert_sensor_data(st, d, t, g) ==
    LET sd1 == Append(st.sensor_data, Reading(d, t, g))
        th1 == [st.temp_history EXCEPT ![d] = DequeAppend(@, t)]
        gh1 == [st.gas_history EXCEPT ![d] = DequeAppend(@, g)]
        now == st.clock + 1
        early == ThresholdAlerts(t, g) \o ZscoreAlerts(th1[d], gh1[d], t, g)
        rows == recent_rows(sd1, d)
    IN IF RollingFault(rows)
       THEN [sensor_data |-> sd1, temp_history |-> th1, gas_history |-> gh1,
             alerts |-> st.alerts, clock |-> now, response |-> "fault"]
       ELSE LET events == early \o RollingAlerts(rows, t, g)
                al1 == InsertAlerts(st.alerts, d, events, now)
                al2 == AutoResolve(al1, d, t, g, now)
            IN [sensor_data |-> sd1, temp_history |-> th1, gas_history |-> gh1,
                alerts |-> al2, clock |-> now, response |-> "processed"]

Engine ==
    [sensor_data |-> sensor_data, temp_history |-> temp_history,
     gas_history |-> gas_history, alerts |-> alerts, clock |-> clock,
     response |-> response]

FreshEngine ==
    [sensor_data |-> <<>>, temp_history |-> [d \in Devices |-> <<>>],
     gas_history |-> [d \in Devices |-> <<>>], alerts |-> <<>>, clock |-> 0,
     response |-> "none"]

\* the engine after the module has been loaded
InitEngine ==
    /\ sensor_data = FreshEngine.sensor_data
    /\ temp_history = FreshEngine.temp_history
    /\ gas_history = FreshEngine.gas_history
    /\ alerts = FreshEngine.alerts
    /\ clock = FreshEngine.clock
    /\ response = FreshEngine.response
    /\ pc = [w \in Workers |-> "idle"]
    /\ req = [w \in Workers |-> Reading("TEMP_SENSOR_01", 0, 0)]
    /\ pending = [w \in Workers |-> <<>>]

Init ==
    /\ InitEngine
    /\ probe = NoProbe
    /\ verdict = <<>>

\* one request served with no other request in flight
Ingest(d, t, g) ==
    /\ Valid(d, t, g)
    /\ \E r \in {insert_sensor_data(Engine, d, t, g)} :
       /\ sensor_data' = r.sensor_data
       /\ temp_history' = r.temp_history
       /\ gas_history' = r.gas_history
       /\ alerts' = r.alerts
       /\ clock' = r.clock
       /\ response' = r.response
       /\ UNCHANGED <<pc, req, pending, probe, verdict>>

\* InsertFails with the deques appended before the insert is tried
InsertFails_WindowFirst(d, t, g) ==
    /\ Valid(d, t, g)
    /\ temp_history' = [temp_history EXCEPT ![d] = DequeAppend(@, t)]
    /\ gas_history' = [gas_history EXCEPT ![d] = DequeAppend(@, g)]
    /\ response' = "error"
    /\ UNCHANGED <<sensor_data, alerts, clock, pc, req, pending, probe, verdict>>

\* lines 80-93: the insert of the reading raises; rollback, {"error": ...}
InsertFails(d, t, g) ==
    /\ Valid(d, t, g)
    /\ response' = "error"
    /\ UNCHANGED <<sensor_data, temp_history, gas_history, alerts, clock,
                   pc, req, pending, probe, verdict>>

\* a request body that fails the SensorData model is answered 422 by the
\* framework; insert_sensor_data is not called
Reject(d, t, g) ==
    /\ ~Valid(d, t, g)
    /\ response' = "invalid"
    /\ UNCHANGED <<sensor_data, temp_history, gas_history, alerts, clock,
                   pc, req, pending, probe, verdict>>

(* ------------------- the handler under the threadpool ------------------ *)
(* insert_sensor_data is a plain def: FastAPI runs each request on a       *)
(* threadpool worker and nothing locks a device.  A worker's request is    *)
(* cut at its database round trips and at its use of the shared deques.    *)

\* lines 82-89: the reading is inserted and committed
ConcPersist(w, d, t, g) ==
    /\ pc[w] = "idle"
    /\ Valid(d, t, g)
    /\ Len(sensor_data) < MaxRequests
    /\ sensor_data' = Append(sensor_data, Reading(d, t, g))
    /\ req' = [req EXCEPT ![w] = Reading(d, t, g)]
    /\ pending' = [pending EXCEPT ![w] = <<>>]
    /\ pc' = [pc EXCEPT ![w] = "window"]
    /\ UNCHANGED <<temp_history, gas_history, alerts, clock, response, probe, verdict>>

\* lines 96-97: both deques take the new value
ConcWindow(w) ==
    /\ pc[w] = "window"
    /\ temp_history' = [temp_history EXCEPT
                           ![req[w].device_id] = DequeAppend(@, req[w].temperature)]
    /\ gas_history' = [gas_history EXCEPT
                          ![req[w].device_id] = DequeAppend(@, req[w].gas_level)]
    /\ pc' = [pc EXCEPT ![w] = "evaluate"]
    /\ UNCHANGED <<sensor_data, alerts, clock, response, req, pending, probe, verdict>>

\* lines 99-127: threshold and z-score rules, the latter on the shared deques
ConcEvaluate(w) ==
    /\ pc[w] = "evaluate"
    /\ pending' = [pending EXCEPT ![w] =
          ThresholdAlerts(req[w].temperature, req[w].gas_level)
          \o ZscoreAlerts(temp_history[req[w].device_id],
                          gas_history[req[w].device_id],
                          req[w].temperature, req[w].gas_level)]
    /\ pc' = [pc EXCEPT ![w] = "query"]
    /\ UNCHANGED <<sensor_data, temp_history, gas_history, alerts, clock,
                   response, req, probe, verdict>>

\* lines 130-161: the recent rows are read and the rolling rule runs
ConcQuery(w) ==
    /\ pc[w] = "query"
    /\ LET rows == recent_rows(sensor_data, req[w].device_id)
       IN IF RollingFault(rows)
          THEN /\ pc' = [pc EXCEPT ![w] = "idle"]
               /\ response' = "fault"
               /\ UNCHANGED pending
          ELSE /\ pc' = [pc EXCEPT ![w] = "alerts"]
               /\ pending' = [pending EXCEPT ![w] =
                     @ \o RollingAlerts(rows, req[w].temperature, req[w].gas_level)]
               /\ UNCHANGED response
    /\ UNCHANGED <<sensor_data, temp_history, gas_history, alerts, clock, req, probe, verdict>>

\* lines 163-175: the events are inserted and committed
ConcInsertAlerts(w) ==
    /\ pc[w] = "alerts"
    /\ clock' = clock + 1
    /\ alerts' = InsertAlerts(alerts, req[w].device_id, pending[w], clock')
    /\ pc' = [pc EXCEPT ![w] = "resolve"]
    /\ UNCHANGED <<sensor_data, temp_history, gas_history, response, req, pending, probe, verdict>>

\* lines 177-211: the two auto-resolve updates, committed, and the response
ConcResolve(w) ==
    /\ pc[w] = "resolve"
    /\ clock' = clock + 1
    /\ alerts' = AutoResolve(alerts, req[w].device_id, req[w].temperature,
                             req[w].gas_level, clock')
    /\ response' = "processed"
    /\ pc' = [pc EXCEPT ![w] = "idle"]
    /\ UNCHANGED <<sensor_data, temp_history, gas_history, req, pending, probe, verdict>>

(* --------------------------- specifications ---------------------------- *)

\* Spec: two devices, requests served one at a time
Temps == {0, 85}
Gases == {0, 700}

Next ==
    \E d \in Devices, t \in Temps, g \in Gases :
        /\ Len(sensor_data) < MaxReadings
        /\ Ingest(d, t, g)

Spec == Init /\ [][Next]_vars

\* SpecSpike: one device from a fresh engine whose signal is piecewise
\* constant: a reading differs from the one before it at most MaxChanges times
SpikeTemps == {0, 20}
SpikeGases == {100, 500}

RECURSIVE Changes(_)
Changes(sd) ==
    IF Len(sd) < 2 THEN 0
    ELSE (IF sd[1] = sd[2] THEN 0 ELSE 1) + Changes(Tail(sd))

NextSpike ==
    \E t \in SpikeTemps, g \in SpikeGases :
        /\ Len(sensor_data) < MaxSpike
        /\ Changes(Append(sensor_data, Reading("GAS_SENSOR_01", t, g))) <= MaxChanges
        /\ Ingest("GAS_SENSOR_01", t, g)

SpecSpike == Init /\ [][NextSpike]_vars

\* SpecWindow: one device whose first WarmUp readings climb a ramp (all
\* values distinct), followed by arbitrary readings
WindowTemps(n) == IF n < WarmUp THEN {20 + n} ELSE Temps
WindowGases(n) == IF n < WarmUp THEN {100 + 10 * n} ELSE Gases

NextWindow ==
    \E t \in WindowTemps(Len(sensor_data)), g \in WindowGases(Len(sensor_data)) :
        /\ Len(sensor_data) < MaxWindow
        /\ Ingest("TEMP_SENSOR_01", t, g)

SpecWindow == Init /\ [][NextWindow]_vars

\* SpecConc: two threadpool workers
ConcTemps == {50}
ConcGases == {100, 700}

NextConc ==
    \E w \in Workers :
        \/ \E d \in Devices, t \in ConcTemps, g \in ConcGases : ConcPersist(w, d, t, g)
        \/ ConcWindow(w)
        \/ ConcEvaluate(w)
        \/ ConcQuery(w)
        \/ ConcInsertAlerts(w)
        \/ ConcResolve(w)

SpecConc == Init /\ [][NextConc]_vars

\* SpecZscore: zscore_anomaly applied once to a window and a current value
ZValues == {100, 500}
ZCurrents == {0, 100, 500}
ZWindows == UNION {[1..n -> ZValues] : n \in 0..MaxSamples}

InitZscore ==
    /\ InitEngine
    /\ probe \in {[rule |-> "zscore", values |-> w, current |-> c] :
                     w \in ZWindows, c \in ZCurrents}
    /\ verdict = <<>>

ApplyZscore ==
    /\ probe.rule = "zscore"
    /\ verdict = <<>>
    /\ verdict' = <<zscore_anomaly(probe.values, probe.current)>>
    /\ UNCHANGED <<sensor_data, temp_history, gas_history, alerts, clock,
                   response, pc, req, pending, probe>>

SpecZscore == InitZscore /\ [][ApplyZscore]_vars

\* SpecLifecycle: the two workers of SpecConc on the readings of Spec
NextLifecycle ==
    \E w \in Workers :
        \/ \E d \in Devices, t \in Temps, g \in Gases : ConcPersist(w, d, t, g)
        \/ ConcWindow(w)
        \/ ConcEvaluate(w)
        \/ ConcQuery(w)
        \/ ConcInsertAlerts(w)
        \/ ConcResolve(w)

SpecLifecycle == Init /\ [][NextLifecycle]_vars

\* SpecIO: one client whose requests may be out of bounds and whose reading
\* insert may fail
IODevices == {"TEMP_SENSOR_01", "D1"}
IOTemps == {-41, -40, 150, 151}
IOGases == {-1, 0, 1000, 1001}

NextIO ==
    \E d \in IODevices, t \in IOTemps, g \in IOGases :
        /\ Len(sensor_data) < MaxIO
        /\ \/ Ingest(d, t, g)
           \/ InsertFails(d, t, g)
           \/ Reject(d, t, g)

SpecIO == Init /\ [][NextIO]_vars

\* SpecThreshold: the threshold rules of lines 101-112 applied to one reading,
\* drawn at, next to and away from every limit
ThTemps == {-40, -1, 0, 1, 59, 60, 61, 79, 80, 81, 150}
ThGases == {0, 299, 300, 301, 599, 600, 601, 1000}

InitThreshold ==
    /\ InitEngine
    /\ probe \in {[rule |-> "threshold", temperature |-> t, gas_level |-> g] :
                     t \in ThTemps, g \in ThGases}
    /\ verdict = <<>>

ApplyThreshold ==
    /\ probe.rule = "threshold"
    /\ verdict = <<>>
    /\ verdict' = <<ThresholdAlerts(probe.temperature, probe.gas_level)>>
    /\ UNCHANGED <<sensor_data, temp_history, gas_history, alerts, clock,
                   response, pc, req, pending, probe>>

SpecThreshold == InitThreshold /\ [][ApplyThreshold]_vars

\* SpecRolling: one device whose readings move between a cold, a nominal and a
\* hot temperature and between a nominal and a dangerous gas level, for long
\* enough that the rolling rule has its 5 rows
RollingReadings == {<<-40, 100>>, <<20, 100>>, <<85, 100>>, <<20, 700>>}

NextRolling ==
    \E r \in RollingReadings :
        /\ Len(sensor_data) < MaxRolling
        /\ Ingest("TEMP_SENSOR_01", r[1], r[2])

SpecRolling == Init /\ [][NextRolling]_vars

(* ------------------------------ claims --------------------------------- *)

DeviceRows(sd, d) == SelectSeq(sd, LAMBDA r : r.device_id = d)

\* the rows of the ledger al that belong to device d and have one of the types
RowsOf(al, d, types) ==
    {i \in DOMAIN al : al[i].device_id = d /\ al[i].alert_type \in types}

ActiveOf(al, d, types) == {i \in RowsOf(al, d, types) : al[i].is_active}

AlertTypes ==
    {"HIGH_GAS", "HIGH_TEMP", "LOW_TEMP", "TEMP_ANOMALY", "GAS_ANOMALY",
     "TEMP_ROLLING_ANOMALY", "GAS_ROLLING_ANOMALY"}

GasGroup == {"HIGH_GAS", "GAS_ANOMALY"}
TempGroup == {"HIGH_TEMP", "LOW_TEMP", "TEMP_ANOMALY"}
ZscoreTypes == {"TEMP_ANOMALY", "GAS_ANOMALY"}

\* the step persisted a reading of device d
Persisted(d) ==
    /\ Len(sensor_data') = Len(sensor_data) + 1
    /\ sensor_data'[Len(sensor_data')].device_id = d

NewReading == sensor_data'[Len(sensor_data')]

\* the rows the step added to the ledger
NewAlerts == {i \in DOMAIN alerts' : i > Len(alerts)}

\* C1: in every reachable state, each (device_id, alert_type) has at most one
\* alert row with is_active = TRUE.
C1_AtMostOneActive ==
    \A d \in Devices, ty \in AlertTypes : Cardinality(ActiveOf(alerts, d, {ty})) <= 1

\* C2: once the newest persisted reading of a device has gas_level <= 300, no
\* HIGH_GAS or GAS_ANOMALY alert of that device is active.
C2_LowGasClearsGasAlerts ==
    \A d \in Devices :
        LET rows == DeviceRows(sensor_data, d)
        IN (rows # <<>> /\ rows[Len(rows)].gas_level <= 300)
              => ActiveOf(alerts, d, GasGroup) = {}

\* C3: a step that persists a reading with gas_level > 600 leaves the device
\* with an active HIGH_GAS alert, of severity HIGH when none was active before.
C3_HighGasOpensAlert ==
    [][\A d \in Devices :
          (Persisted(d) /\ NewReading.gas_level > 600)
             => /\ ActiveOf(alerts', d, {"HIGH_GAS"}) # {}
                /\ ActiveOf(alerts, d, {"HIGH_GAS"}) = {}
                      => \E i \in ActiveOf(alerts', d, {"HIGH_GAS"}) :
                             alerts'[i].severity = "HIGH"]_vars

\* C4: once the newest persisted reading of a device has 0 <= temperature <= 60,
\* every HIGH_TEMP, LOW_TEMP and TEMP_ANOMALY row of that device has
\* is_active = FALSE and a non-null resolved_at.
C4_NominalTempResolves ==
    \A d \in Devices :
        LET rows == DeviceRows(sensor_data, d)
        IN (rows # <<>> /\ 0 <= rows[Len(rows)].temperature
                        /\ rows[Len(rows)].temperature <= 60)
              => \A i \in RowsOf(alerts, d, TempGroup) :
                     ~alerts[i].is_active /\ alerts[i].resolved_at # NULL

\* C5: the rolling-deviation rule never raises a fault: no request ends with
\* the division by a zero mean.
C5_NoDivisionFault == response # "fault"

\* C6: every step that persists a reading adds a ledger row for each threshold
\* event of the reading and applies both auto-resolve conditions.
C6_RulesNeverAbort ==
    [][\A d \in Devices :
          Persisted(d)
             => /\ \A k \in DOMAIN ThresholdAlerts(NewReading.temperature,
                                                   NewReading.gas_level) :
                       \E i \in NewAlerts :
                           /\ alerts'[i].device_id = d
                           /\ alerts'[i].alert_type =
                                 ThresholdAlerts(NewReading.temperature,
                                                 NewReading.gas_level)[k][1]
                           /\ alerts'[i].severity =
                                 ThresholdAlerts(NewReading.temperature,
                                                 NewReading.gas_level)[k][2]
                /\ NewReading.gas_level <= 300
                      => ActiveOf(alerts', d, GasGroup) = {}
                /\ (0 <= NewReading.temperature /\ NewReading.temperature <= 60)
                      => ActiveOf(alerts', d, TempGroup) = {}]_vars

\* the gas levels device D2 has sent so far
D2Gases == RowGases(DeviceRows(sensor_data, "GAS_SENSOR_01"))

NineThenSpike == D2Gases = <<100, 100, 100, 100, 100, 100, 100, 100, 100, 500>>
TenThenSpike == D2Gases = <<100, 100, 100, 100, 100, 100, 100, 100, 100, 100, 500>>

\* the temperatures of D2's ten most recent rows sum to 0: the mean the
\* rolling rule divides by is 0
LastTenTempsSumZero ==
    SumSeq(RowTemps(recent_rows(sensor_data, "GAS_SENSOR_01"))) = 0

\* C7 (as stated): after gas readings 100 nine times and then 500 from a fresh
\* engine, D2 has a GAS_ANOMALY alert of severity HIGH and a HIGH_GAS alert of
\* severity MEDIUM, both opened by the tenth reading.
C7_SpikeOnTenthFires ==
    NineThenSpike
       => /\ \E i \in RowsOf(alerts, "GAS_SENSOR_01", {"GAS_ANOMALY"}) : alerts[i].severity = "HIGH"
          /\ \E i \in RowsOf(alerts, "GAS_SENSOR_01", {"HIGH_GAS"}) : alerts[i].severity = "MEDIUM"

\* C7 (amended): after gas readings 100 nine times and then 500, D2 has no
\* GAS_ANOMALY alert; the tenth reading opens one HIGH_GAS alert of severity
\* MEDIUM, unless the temperatures of the ten rows sum to 0, and then the
\* request faults and opens nothing.  When the spike is the eleventh reading
\* it opens GAS_ANOMALY/HIGH and HIGH_GAS/MEDIUM, with the same exception.
C7_SpikeNeedsEleven ==
    /\ NineThenSpike
          => /\ RowsOf(alerts, "GAS_SENSOR_01", {"GAS_ANOMALY"}) = {}
             /\ IF LastTenTempsSumZero
                THEN RowsOf(alerts, "GAS_SENSOR_01", {"HIGH_GAS"}) = {} /\ response = "fault"
                ELSE /\ Cardinality(RowsOf(alerts, "GAS_SENSOR_01", {"HIGH_GAS"})) = 1
                     /\ \A i \in RowsOf(alerts, "GAS_SENSOR_01", {"HIGH_GAS"}) :
                            alerts[i].severity = "MEDIUM" /\ alerts[i].is_active
    /\ TenThenSpike
          => IF LastTenTempsSumZero
             THEN RowsOf(alerts, "GAS_SENSOR_01", GasGroup) = {} /\ response = "fault"
             ELSE /\ Cardinality(RowsOf(alerts, "GAS_SENSOR_01", {"GAS_ANOMALY"})) = 1
                  /\ \A i \in RowsOf(alerts, "GAS_SENSOR_01", {"GAS_ANOMALY"}) :
                         alerts[i].severity = "HIGH" /\ alerts[i].is_active
                  /\ Cardinality(RowsOf(alerts, "GAS_SENSOR_01", {"HIGH_GAS"})) = 1
                  /\ \A i \in RowsOf(alerts, "GAS_SENSOR_01", {"HIGH_GAS"}) :
                         alerts[i].severity = "MEDIUM" /\ alerts[i].is_active

\* the tenth reading was the spike and its request completed
C7_TenthProcessed ==
    NineThenSpike /\ response = "processed" /\ ActiveOf(alerts, "GAS_SENSOR_01", {"HIGH_GAS"}) # {}

\* C8: a step that persists one of the first 10 readings of a device adds no
\* TEMP_ANOMALY or GAS_ANOMALY row.
C8_NoZscoreInFirstTen ==
    [][\A d \in Devices :
          (Persisted(d) /\ Len(DeviceRows(sensor_data', d)) <= 10)
             => \A i \in NewAlerts : alerts'[i].alert_type \notin ZscoreTypes]_vars

\* the eleventh reading of D2 opened a z-score alert
C8_EleventhOpens ==
    /\ Len(DeviceRows(sensor_data, "GAS_SENSOR_01")) = 11
    /\ RowsOf(alerts, "GAS_SENSOR_01", ZscoreTypes) # {}

\* what a client can tell of the ledger: the rows without their wall-clock times
LedgerRow(a) ==
    [device_id |-> a.device_id, alert_type |-> a.alert_type,
     severity |-> a.severity, message |-> a.message, is_active |-> a.is_active,
     resolved |-> a.resolved_at # NULL]

LedgerBag(al) ==
    LET rows == {LedgerRow(al[i]) : i \in DOMAIN al}
    IN [r \in rows |-> Cardinality({i \in DOMAIN al : LedgerRow(al[i]) = r})]

View(st) == <<st.temp_history, st.gas_history, LedgerBag(st.alerts)>>

\* the two readings served one after the other from a fresh engine
Serial(r1, r2) ==
    insert_sensor_data(
        insert_sensor_data(FreshEngine, r1.device_id, r1.temperature, r1.gas_level),
        r2.device_id, r2.temperature, r2.gas_level)

\* C9: when two requests for the same device have both ended, the windows and
\* the ledger are those of the two requests served one after the other in
\* some order.
C9_Serializable ==
    (/\ \A w \in Workers : pc[w] = "idle"
     /\ Len(sensor_data) = 2
     /\ sensor_data[1].device_id = sensor_data[2].device_id)
       => View(Engine) \in {View(Serial(sensor_data[1], sensor_data[2])),
                            View(Serial(sensor_data[2], sensor_data[1]))}

\* C10: each window holds at most 20 values, the most recent min(n, 20) values
\* observed for its device and metric, oldest first.
C10_WindowIsRecent ==
    \A d \in Devices :
        /\ Len(temp_history[d]) <= 20
        /\ Len(gas_history[d]) <= 20
        /\ temp_history[d] = LastK(RowTemps(DeviceRows(sensor_data, d)), 20)
        /\ gas_history[d] = LastK(RowGases(DeviceRows(sensor_data, d)), 20)

\* the 21st observation has removed the first one
C10_OldestEvicted ==
    LET rows == DeviceRows(sensor_data, "TEMP_SENSOR_01")
    IN /\ Len(rows) = 21
       /\ Len(temp_history["TEMP_SENSOR_01"]) = 20
       /\ temp_history["TEMP_SENSOR_01"][1] = rows[2].temperature
       /\ rows[1].temperature # rows[2].temperature

\* the readings served one after the other, starting from engine st
RECURSIVE Replay(_, _)
Replay(readings, st) ==
    IF readings = <<>> THEN st
    ELSE Replay(Tail(readings),
                insert_sensor_data(st, Head(readings).device_id,
                                   Head(readings).temperature,
                                   Head(readings).gas_level))

\* the ledger rows in order, without their wall-clock times
LedgerRows(al) == [i \in 1..Len(al) |-> LedgerRow(al[i])]

C12_NoVerdictOnShortOrFlat ==
    (/\ probe.rule = "zscore"
     /\ verdict # <<>>
     /\ \/ Len(probe.values) < 10
        \/ \A i, j \in DOMAIN probe.values : probe.values[i] = probe.values[j])
       => verdict = <<FALSE>>

\* a flat window of 10 samples or more was judged against another value
C12_FlatWindowJudged ==
    /\ probe.rule = "zscore"
    /\ verdict = <<FALSE>>
    /\ Len(probe.values) >= 10
    /\ \A i \in DOMAIN probe.values : probe.values[i] = 100
    /\ probe.current = 500

RollingTypes == {"TEMP_ROLLING_ANOMALY", "GAS_ROLLING_ANOMALY"}

\* C13: a step that persists a reading of a device that then has fewer than 5
\* stored readings, rows of other devices not counted, adds no
\* TEMP_ROLLING_ANOMALY or GAS_ROLLING_ANOMALY row.
C13_NoRollingBelowFive ==
    [][\A d \in Devices :
          (Persisted(d) /\ Len(DeviceRows(sensor_data', d)) < 5)
             => \A i \in NewAlerts : alerts'[i].alert_type \notin RollingTypes]_vars

\* five rows are stored, four of them of TEMP_SENSOR_01, whose newest reading
\* jumped from 0 to 85 degrees and from 0 to 700 ppm: no rolling alert
C13_FourRowsOfFive ==
    LET rows == DeviceRows(sensor_data, "TEMP_SENSOR_01")
    IN /\ Len(sensor_data) = 5
       /\ Len(rows) = 4
       /\ sensor_data[5] = Reading("TEMP_SENSOR_01", 85, 700)
       /\ \A i \in 1..3 : rows[i] = Reading("TEMP_SENSOR_01", 0, 0)
       /\ RowsOf(alerts, "TEMP_SENSOR_01", RollingTypes) = {}

\* resolved_at is set exactly on the rows that are no longer active
ResolvedIffInactive ==
    \A i \in DOMAIN alerts : (alerts[i].resolved_at # NULL) <=> ~alerts[i].is_active

\* no row disappears; a row stays as it is or goes from active to resolved,
\* its other columns kept; a new row is active
LifecycleStep ==
    /\ Len(alerts') >= Len(alerts)
    /\ \A i \in DOMAIN alerts :
          \/ alerts'[i] = alerts[i]
          \/ /\ alerts[i].is_active
             /\ alerts'[i].resolved_at # NULL
             /\ alerts'[i] = [alerts[i] EXCEPT !.is_active = FALSE,
                                               !.resolved_at = alerts'[i].resolved_at]
    /\ \A i \in NewAlerts : alerts'[i].is_active /\ alerts'[i].resolved_at = NULL

\* C14: alert rows follow a one-way lifecycle (created active, then at most
\* the transition to is_active = FALSE with resolved_at set, never back, never
\* deleted), so resolved_at is non-null exactly for the inactive rows and the
\* number of rows never decreases.
C14_OneWayLifecycle == []ResolvedIffInactive /\ [][LifecycleStep]_vars

\* both requests have ended; the ledger holds a resolved and an active row
C14_ResolvedAndActive ==
    /\ \A w \in Workers : pc[w] = "idle"
    /\ \E i \in DOMAIN alerts : ~alerts[i].is_active /\ alerts[i].resolved_at # NULL
    /\ \E i \in DOMAIN alerts : alerts[i].is_active

\* the step left the reading store, the windows and the ledger as they were
EngineUntouched ==
    /\ sensor_data' = sensor_data
    /\ temp_history' = temp_history
    /\ gas_history' = gas_history
    /\ alerts' = alerts

\* C15: a request whose reading insert fails with a storage error reports the
\* failure and has no other effect: no row stored, windows unchanged, no alert
\* opened, none resolved.
C15_FailedInsertHasNoEffect ==
    [][response' = "error" => EngineUntouched]_vars

\* an insert failed on an engine that holds readings and active alerts
C15_FailedAfterAlerts ==
    /\ response = "error"
    /\ sensor_data # <<>>
    /\ \E i \in DOMAIN alerts : alerts[i].is_active

\* every stored row and every window value is within the declared bounds
StoredWithinBounds ==
    /\ \A i \in DOMAIN sensor_data :
          /\ Len(sensor_data[i].device_id) \in 3..50
          /\ sensor_data[i].temperature \in -40..150
          /\ sensor_data[i].gas_level \in 0..1000
    /\ \A d \in Devices :
          /\ \A i \in DOMAIN temp_history[d] : temp_history[d][i] \in -40..150
          /\ \A i \in DOMAIN gas_history[d] : gas_history[d][i] \in 0..1000

\* C16: a reading outside the declared bounds (device_id of 3..50 characters,
\* temperature in [-40, 150], gas_level in [0, 1000]) is rejected before any
\* engine step: it leaves the reading store, the windows and the ledger as
\* they were, and nothing out of bounds is ever stored.
C16_OutOfBoundsRejected ==
    []StoredWithinBounds /\ [][response' = "invalid" => EngineUntouched]_vars

\* a request was rejected by an engine that holds readings and alerts
C16_RejectedAfterAlerts ==
    /\ response = "invalid"
    /\ sensor_data # <<>>
    /\ alerts # <<>>

\* the (alert_type, severity) pairs of a list of events
EventPairs(events) == {<<events[i][1], events[i][2]>> : i \in DOMAIN events}

\* events of a list whose alert_type is one of types
EventsOfType(events, types) == {i \in DOMAIN events : events[i][1] \in types}

\* C17: the threshold events of a reading are exactly (HIGH_GAS, HIGH) if
\* gas > 600, else (HIGH_GAS, MEDIUM) if gas > 300, else none, and (HIGH_TEMP,
\* HIGH) if temp > 80, else (HIGH_TEMP, MEDIUM) if temp > 60, else (LOW_TEMP,
\* LOW) if temp < 0, else none; the limits themselves take the lower branch and
\* there is at most one event of each kind.
C17_ThresholdEventsExact ==
    (probe.rule = "threshold" /\ verdict # <<>>) =>
        LET t == probe.temperature
            g == probe.gas_level
            ev == verdict[1]
            pairs == EventPairs(ev)
        IN  /\ (<<"HIGH_GAS", "HIGH">> \in pairs) <=> (g > 600)
            /\ (<<"HIGH_GAS", "MEDIUM">> \in pairs) <=> (300 < g /\ g <= 600)
            /\ (<<"HIGH_TEMP", "HIGH">> \in pairs) <=> (t > 80)
            /\ (<<"HIGH_TEMP", "MEDIUM">> \in pairs) <=> (60 < t /\ t <= 80)
            /\ (<<"LOW_TEMP", "LOW">> \in pairs) <=> (t < 0)
            /\ pairs \subseteq {<<"HIGH_GAS", "HIGH">>, <<"HIGH_GAS", "MEDIUM">>,
                                <<"HIGH_TEMP", "HIGH">>, <<"HIGH_TEMP", "MEDIUM">>,
                                <<"LOW_TEMP", "LOW">>}
            /\ Cardinality(EventsOfType(ev, {"HIGH_GAS"})) <= 1
            /\ Cardinality(EventsOfType(ev, {"HIGH_TEMP", "LOW_TEMP"})) <= 1
            /\ Len(ev) = Cardinality(pairs)

\* the reading at the limits 80 and 600 was judged MEDIUM on both rules
C17_LimitsTakeLowerBranch ==
    /\ probe.rule = "threshold"
    /\ probe.temperature = 80
    /\ probe.gas_level = 600
    /\ verdict # <<>>
    /\ EventPairs(verdict[1]) = {<<"HIGH_GAS", "MEDIUM">>, <<"HIGH_TEMP", "MEDIUM">>}

\* the step left device b as it was: its stored readings, its windows and its
\* alert rows, and it added no alert row of b
DeviceUntouched(b) ==
    /\ DeviceRows(sensor_data', b) = DeviceRows(sensor_data, b)
    /\ temp_history'[b] = temp_history[b]
    /\ gas_history'[b] = gas_history[b]
    /\ \A i \in DOMAIN alerts : alerts[i].device_id = b => alerts'[i] = alerts[i]
    /\ \A i \in NewAlerts : alerts'[i].device_id # b

\* C18: ingesting a reading for device A leaves every other device B as it
\* was: the windows of B keep their contents and no alert row of B is created,
\* resolved or otherwise modified.
C18_OtherDevicesUntouched ==
    [][\A a \in Devices : Persisted(a) =>
          \A b \in Devices \ {a} : DeviceUntouched(b)]_vars

\* a HIGH_TEMP alert of one device was resolved by a nominal reading of that
\* device while an older HIGH_TEMP alert of the other device stayed active
C18_OtherAlertStaysActive ==
    \E i, j \in DOMAIN alerts :
        /\ alerts[i].device_id = "GAS_SENSOR_01"
        /\ alerts[i].alert_type = "HIGH_TEMP"
        /\ alerts[i].is_active
        /\ alerts[j].device_id = "TEMP_SENSOR_01"
        /\ alerts[j].alert_type = "HIGH_TEMP"
        /\ ~alerts[j].is_active
        /\ alerts[j].resolved_at > alerts[i].created_at
        /\ temp_history["GAS_SENSOR_01"] # <<>>

\* every rolling alert of the ledger is active and has no resolution time
RollingAlertsActive ==
    \A i \in DOMAIN alerts :
        alerts[i].alert_type \in RollingTypes =>
            alerts[i].is_active /\ alerts[i].resolved_at = NULL

\* the step kept every rolling alert of the ledger as it was
RollingAlertsKept ==
    \A i \in DOMAIN alerts :
        alerts[i].alert_type \in RollingTypes =>
            i \in DOMAIN alerts' /\ alerts'[i] = alerts[i]

\* C19: no operation resolves an alert of type TEMP_ROLLING_ANOMALY or
\* GAS_ROLLING_ANOMALY: once opened it is active in every later state, whatever
\* readings follow, also readings back in the nominal range.
C19_RollingNeverResolved ==
    []RollingAlertsActive /\ [][RollingAlertsKept]_vars

\* both rolling alerts are open and the last reading processed, later than
\* both, is nominal in temperature and in gas
C19_NominalAfterRolling ==
    /\ response = "processed"
    /\ sensor_data # <<>>
    /\ TempResolves(sensor_data[Len(sensor_data)].temperature)
    /\ GasResolves(sensor_data[Len(sensor_data)].gas_level)
    /\ \E i, j \in DOMAIN alerts :
          /\ alerts[i].alert_type = "TEMP_ROLLING_ANOMALY"
          /\ alerts[j].alert_type = "GAS_ROLLING_ANOMALY"
          /\ alerts[i].is_active /\ alerts[j].is_active
          /\ alerts[i].created_at < clock /\ alerts[j].created_at < clock

\* the sum of the temperatures of the 10 latest stored rows of device d
RecentTempSum(sd, d) == SumSeq(RowTemps(recent_rows(sd, d)))

\* C20: the deviation is abs(value - avg) divided by the signed average, so a
\* step that persists a reading of a device whose recent rows, the new one
\* included, have a negative mean temperature opens no TEMP_ROLLING_ANOMALY,
\* however far the temperature is from that mean.
C20_NegativeMeanNeverAlerts ==
    [][\A d \in Devices :
          (Persisted(d) /\ RecentTempSum(sensor_data', d) < 0) =>
              \A i \in NewAlerts : alerts'[i].alert_type # "TEMP_ROLLING_ANOMALY"]_vars

\* a reading of 85 degrees was processed over five rows or more of negative
\* mean, 125 degrees or more away from it, and no TEMP_ROLLING_ANOMALY exists
C20_HotReadingOverColdMean ==
    /\ response = "processed"
    /\ Len(DeviceRows(sensor_data, "TEMP_SENSOR_01")) >= 5
    /\ sensor_data[Len(sensor_data)].temperature = 85
    /\ RecentTempSum(sensor_data, "TEMP_SENSOR_01") < 0
    /\ RowsOf(alerts, "TEMP_SENSOR_01", {"TEMP_ROLLING_ANOMALY"}) = {}

====
